---- MODULE Spec2Model ----
(***************************************************************************)
(* capo::signal (src/capo/signal.hpp): a registry of heap-allocated slots  *)
(* kept in a vector of raw pointers, and the two dispatch operators        *)
(* signal<void(P...)>::operator() and signal<R(P...)>::operator().         *)
(*                                                                         *)
(* The vector is modelled with its storage: `store` is the whole buffer    *)
(* (Len(store) = capacity()), `size` the number of live elements.  Cells   *)
(* beyond `size` keep whatever was last written there, which is what a     *)
(* dispatch pass reads when a target shrinks the registry under it.        *)
(* A dispatch pass is split into one step per loop iteration, because a    *)
(* target may call connect/disconnect on the registry while it is invoked. *)
(* Where the C++ has undefined behaviour (an invalidated iterator, a call  *)
(* through a deleted slot, a read of an uninitialised cell) the model      *)
(* offers every outcome a build can produce: the process dies (FireCrash), *)
(* or the machine does what the memory holds (FireCall, FireSkip).         *)
(*                                                                         *)
(* capo::printf (src/capo/printf.hpp) is modelled next to it: the format   *)
(* string is a sequence of characters, detail_printf::check walks it as    *)
(* the code does, and detail_printf::output runs only after check returned.*)
(***************************************************************************)
EXTENDS Integers, Sequences, FiniteSets

\* ---------------------------------------------------------------- bounds
\* number of slots ever allocated by connect()
MaxObjs == 3
\* sizeof...(P): number of parameters of the signal's signature
NParams == 2
\* number of pieces (literals, "%%", conversion specifications) of a format
MaxToks == 3
\* number of arguments passed to printf after the format
MaxArgs == 2

\* ------------------------------------------------------- symbolic values
\* function_traits<F>::type is void: the arity of F cannot be determined
Unknown == -1
\* a storage cell that was never written
Garbage == 0
\* R{} : the value-initialised result
Default == 0
\* the result slot of a pass that has not returned a value
NoResult == -1
\* a read past the capacity of the buffer
Beyond == -2

\* ------------------------------------------------------------- payloads
\* A payload is [c, f]: f names the callable, c the receiver it is bound to
\* (c = 0: a free callable, held by slot_fn<void, F, R, P...>; c # 0: a
\* member function f_ with receiver c_, held by slot_fn<C, F, R, P...>).
\* Callables 1..4 are free callables, 5..6 are member functions.

\* std::tuple_size<function_traits<F>::parameters> of callable f
\* (3 is a generic callable, 4 a functor whose operator() has a defaulted
\* trailing parameter)
DeclParams(f) ==
    CASE f = 1 -> 1
      [] f = 2 -> 1
      [] f = 3 -> Unknown
      [] f = 4 -> NParams + 1
      [] f = 5 -> 0
      [] f = 6 -> 0

\* the static type F of callable f: 1 and 2 are two functions of one type,
\* 5 and 6 two member functions of one class with one signature
FType(f) ==
    CASE f \in {1, 2} -> 1
      [] f = 3 -> 3
      [] f = 4 -> 4
      [] f \in {5, 6} -> 5

\* what the target returns for a result-bearing signature
Ret(p) == 10 * p.c + p.f

\* the payloads the registry operations are tried with
Payloads == {[c |-> 0, f |-> 1], [c |-> 0, f |-> 2], [c |-> 1, f |-> 5]}

\* the payloads the arity adaptation is tried with
ArityPayloads ==
    {[c |-> 0, f |-> 1], [c |-> 0, f |-> 3], [c |-> 0, f |-> 4],
     [c |-> 1, f |-> 5]}

\* the payloads removal by identity is tried with: two functions of one type,
\* one method on two receivers, two methods on one receiver
IdentityPayloads ==
    {[c |-> 0, f |-> 1], [c |-> 0, f |-> 2],
     [c |-> 1, f |-> 5], [c |-> 2, f |-> 5], [c |-> 1, f |-> 6]}

NoPayload == [c |-> 0, f |-> 0]

\* the fire-time argument lists that are tried
CountUp == [i \in 1..NParams |-> i]
CountDown == [i \in 1..NParams |-> NParams + 1 - i]

\* ---------------------------------------------------------------- arity
Min(a, b) == IF a < b THEN a ELSE b

\* traits<S, F>: the parameters of F, or those of the signature S when the
\* arity of F is not known
TraitsParams(m, n) == IF m = Unknown THEN n ELSE m

\* a suitable_size that forwards every argument to every target
SuitableSizeAll(m, n) == n

\* suitable_size<F, P...>: min_number<tuple_size<traits::parameters>, sizeof...(P)>
SuitableSize(m, n) == Min(TraitsParams(m, n), n)

\* slot_fn::forward(constant_seq<0..K-1>, tp): f_(std::get<N>(tp)...)
Forward(k, tp) == [j \in 1..k |-> tp[j]]

\* slot_fn::call(args...): what f_ receives
CallArgs(p, as) == Forward(SuitableSize(DeclParams(p.f), Len(as)), as)

\* --------------------------------------------------------------- vector
\* an emptiness test that never answers yes
IsEmptyNever(sz) == FALSE

\* slots_.empty()
IsEmpty(sz) == sz = 0

\* a loop bound that also covers the last element
LtSize(i, sz) == i < sz

\* i < slots_.size() - 1 in size_t arithmetic: size_t(0) - 1 is SIZE_MAX,
\* which every index the loop can reach is below
LtSizeMinus1(i, sz) == IF sz = 0 THEN TRUE ELSE i < sz - 1

\* the live elements [begin(), end())
Live(st, sz) == SubSeq(st, 1, sz)

\* capacity after a reallocating push_back (doubling growth)
Grow(cap) == IF cap = 0 THEN 1 ELSE 2 * cap

\* a push that inserts the new element in front of the others
PushFront(st, sz, x) ==
    [j \in 1..(IF sz < Len(st) THEN Len(st) ELSE Grow(Len(st))) |->
        IF j = 1 THEN x ELSE IF j <= sz + 1 THEN st[j - 1] ELSE Garbage]

\* slots_.push_back(x)
PushBack(st, sz, x) ==
    IF sz < Len(st)
    THEN [st EXCEPT ![sz + 1] = x]
    ELSE [j \in 1..Grow(Len(st)) |->
            IF j <= sz THEN st[j] ELSE IF j = sz + 1 THEN x ELSE Garbage]

\* a growing push_back that gives up its elements when the allocation fails
SizeAfterLosingPush(sz) == 0

\* slots_.push_back(x) whose reallocation throws std::bad_alloc: the vector
\* keeps its buffer and its elements; this is the size it is left with
SizeAfterFailedPush(sz) == sz

\* an erase that drops the last element instead of the k-th
ErasePopsBack(st, sz, k) == st

\* slots_.erase(it), it at 1-based position k: the tail moves down by one and
\* the cell of the old last element keeps its value
Erase(st, sz, k) ==
    [j \in 1..Len(st) |-> IF j >= k /\ j < sz THEN st[j + 1] ELSE st[j]]

\* --------------------------------------------------------------- printf
\* the terminating '\0' of a format string
Nul == "NUL"

\* a null `const char* fmt`
NullFmt == <<"NULL">>

\* *fmt with fmt at 1-based position i of s
At(s, i) == IF i <= Len(s) THEN s[i] ELSE Nul

\* enforce_argument: the length_t state after character c
LengthAfter(st, c) ==
    CASE c = "h" -> IF st = "h" THEN "hh" ELSE "h"
      [] c = "l" -> IF st = "l" THEN "ll" ELSE "l"
      [] c \in {"j", "z", "t", "L"} -> c
      [] OTHER -> st

\* enforce_argument: the characters whose case ends with `return`
Conversions ==
    {"d", "i", "u", "o", "x", "X", "f", "F", "e", "E", "g", "G", "a", "A",
     "c", "s", "p", "n"}

\* enforce_argument: the type U of enforce<t_t, U> for conversion c in
\* length state st
Required(c, st) ==
    CASE c \in {"d", "i"} ->
            (CASE st = "h" -> "short" [] st = "hh" -> "char"
               [] st = "l" -> "long" [] st = "ll" -> "long long"
               [] st = "j" -> "intmax_t" [] st = "z" -> "size_t"
               [] st = "t" -> "ptrdiff_t" [] OTHER -> "int")
      [] c \in {"u", "o", "x", "X"} ->
            (CASE st = "h" -> "unsigned short" [] st = "hh" -> "unsigned char"
               [] st = "l" -> "unsigned long" [] st = "ll" -> "unsigned long long"
               [] st = "j" -> "uintmax_t" [] st = "z" -> "size_t"
               [] st = "t" -> "ptrdiff_t" [] OTHER -> "unsigned int")
      [] c \in {"f", "F", "e", "E", "g", "G", "a", "A"} ->
            (IF st = "L" THEN "long double" ELSE "double")
      [] c = "c" -> (IF st = "l" THEN "wchar_t" ELSE "char")
      [] c = "s" -> (IF st = "l" THEN "const wchar_t*" ELSE "const char*")
      [] c = "p" -> "void*"
      [] c = "n" ->
            (CASE st = "h" -> "short*" [] st = "hh" -> "char*"
               [] st = "l" -> "long*" [] st = "ll" -> "long long*"
               [] st = "j" -> "intmax_t*" [] st = "z" -> "size_t*"
               [] st = "t" -> "ptrdiff_t*" [] OTHER -> "int*")

\* the arithmetic types among the required types
Arithmetic ==
    {"int", "short", "char", "long", "long long", "intmax_t", "size_t",
     "ptrdiff_t", "unsigned int", "unsigned short", "unsigned char",
     "unsigned long", "unsigned long long", "uintmax_t", "double",
     "long double", "wchar_t"}

\* std::is_convertible<T, U> for the decayed argument types int and
\* const char*
Convertible(t, u) ==
    IF t = "int" THEN u \in Arithmetic ELSE u = "const char*"

\* enforce_argument<T>(fmt) with fmt at position i: "ok" when it returns,
\* "throw" when enforce throws std::invalid_argument
RECURSIVE EnforceArgument(_, _, _, _)
EnforceArgument(s, i, st, t) ==
    LET c == At(s, i)
    IN IF c = Nul THEN "throw"
       ELSE IF c \in Conversions
       THEN (IF Convertible(t, Required(c, st)) THEN "ok" ELSE "throw")
       ELSE EnforceArgument(s, i + 1, LengthAfter(st, c), t)

\* a check of the rest of the format that accepts leftover specifications
CheckRestLenient(s, i) == "ok"

\* check(fmt) with no argument left, fmt at position i
RECURSIVE CheckRest(_, _)
CheckRest(s, i) ==
    IF At(s, i) = Nul THEN "ok"
    ELSE IF At(s, i) # "%" THEN CheckRest(s, i + 1)
    ELSE IF At(s, i + 1) = "%" THEN CheckRest(s, i + 2)
    ELSE "throw"

\* check(fmt, a1, args...) with the argument types ts, fmt at position i
RECURSIVE Check(_, _, _)
Check(s, i, ts) ==
    IF ts = <<>> THEN CheckRest(s, i)
    ELSE IF At(s, i) = Nul THEN "throw"
    ELSE IF At(s, i) # "%" THEN Check(s, i + 1, ts)
    ELSE IF At(s, i + 1) = "%" THEN Check(s, i + 2, ts)
    ELSE IF EnforceArgument(s, i + 1, "none", Head(ts)) = "throw" THEN "throw"
    ELSE Check(s, i + 2, Tail(ts))

\* the pieces formats are built from: a literal character, an escaped
\* percent sign, and three conversion specifications
Pieces ==
    {<<"d">>, <<"%", "%">>, <<"%", "d">>, <<"%", "s">>, <<"%", "l", "d">>}

\* the characters of a sequence of pieces
RECURSIVE Flatten(_)
Flatten(ts) == IF ts = <<>> THEN <<>> ELSE Head(ts) \o Flatten(Tail(ts))

\* sequences over S of length at most n
RECURSIVE SeqsUpTo(_, _)
SeqsUpTo(S, n) ==
    IF n = 0 THEN {<<>>}
    ELSE LET shorter == SeqsUpTo(S, n - 1)
         IN shorter \cup {Append(q, x) : q \in shorter, x \in S}

\* the arguments tried: an int, a non-empty C string, an empty C string
ArgValues == {"int", "str", "empty"}

\* std::decay<T>::type of an argument
TypeOf(a) == IF a = "int" THEN "int" ELSE "const char*"

TypesOf(as) == [j \in 1..Len(as) |-> TypeOf(as[j])]

VARIABLES
    kind,       \* "void": signal<void(P...)>, "result": signal<R(P...)>
    store,      \* slots_: the buffer, Len(store) = capacity
    size,       \* slots_.size()
    objs,       \* objs[id]: payload of the slot allocated as number id
    freed,      \* ids of the slots that were deleted
    pc,         \* "idle", "loop", "returned", "threw", "crashed", "destroyed"
    it,         \* loop position of the pass (0-based)
    endIt,      \* the end iterator the range-for cached (void signature)
    view,       \* the buffer the range-for iterates once slots_ reallocated
    detached,   \* TRUE when the range-for iterates a buffer slots_ gave up
    args,       \* the arguments of the pass
    log,        \* invocations of the pass: [id, got, dead, threw]
    snap,       \* the live elements when the pass began
    mutated,    \* registry operations targets performed during the pass
    result,     \* what the pass returned
    last,       \* the last registry operation: [op, p, pre, preFreed]
    ppc,        \* printf: "idle", "checking", "output", "done", "threw", "crashed"
    ptoks,      \* printf: the pieces the format was written from
    pfmt,       \* printf: fmt, the characters of the format
    pargs,      \* printf: args...
    pres,       \* printf: "none", or how detail_printf::check ended
    psink       \* printf: number of calls of call_out

vars == <<kind, store, size, objs, freed, pc, it, endIt, view, detached,
          args, log, snap, mutated, result, last,
          ppc, ptoks, pfmt, pargs, pres, psink>>

printfVars == <<ppc, ptoks, pfmt, pargs, pres, psink>>
signalVars == <<kind, store, size, objs, freed, pc, it, endIt, view, detached,
                args, log, snap, mutated, result, last>>

regVars == <<store, size, objs, freed>>
passVars == <<pc, it, endIt, view, detached, args, log, snap, mutated, result>>

\* no registry operation has been recorded
NoOp == [op |-> "none", p |-> NoPayload, pre |-> <<>>, preFreed |-> {}]

\* the record of a registry operation the caller performs on the state
Op(o, p) == [op |-> o, p |-> p, pre |-> Live(store, size), preFreed |-> freed]

Init ==
    /\ kind \in {"void", "result"}
    /\ store = <<>>
    /\ size = 0
    /\ objs = <<>>
    /\ freed = {}
    /\ pc = "idle"
    /\ it = 0
    /\ endIt = 0
    /\ view = <<>>
    /\ detached = FALSE
    /\ args = <<>>
    /\ log = <<>>
    /\ snap = <<>>
    /\ mutated = {}
    /\ result = NoResult
    /\ last = NoOp
    /\ ppc = "idle"
    /\ ptoks = <<>>
    /\ pfmt = <<>>
    /\ pargs = <<>>
    /\ pres = "none"
    /\ psink = 0

\* ----------------------------------------------------- registry operations
\* signal_b::connect: new slot_fn{...}, slots_.push_back
DoConnect(p) ==
    /\ Len(objs) < MaxObjs
    /\ objs' = Append(objs, p)
    /\ store' = PushBack(store, size, Len(objs) + 1)
    /\ size' = size + 1
    /\ freed' = freed

\* dynamic_cast<slot_t*>(*it) != nullptr: the entry q is a slot_fn of the
\* class and callable type of the payload p
SameSlotType(q, p) == (q.c = 0) = (p.c = 0) /\ FType(q.f) = FType(p.f)

\* an identity test that is satisfied by the slot type alone
SameIdentityByType(q, p) == TRUE

\* an identity test that forgets the receiver
SameCallableOnly(q, p) == q.f = p.f

\* sp->f_ == slot, and sp->c_ == receiver for a bound slot
SameIdentity(q, p) == q.c = p.c /\ q.f = p.f

Matches(q, p) == SameSlotType(q, p) /\ SameIdentity(q, p)

\* a disconnect loop that keeps scanning and stops at the last match
FindLast(st, sz, p) ==
    LET hits == {k \in 1..sz : Matches(objs[st[k]], p)}
    IN IF hits = {} THEN 0 ELSE CHOOSE k \in hits : \A h \in hits : k >= h

\* the position at which the disconnect loop breaks, 0 when it reaches end()
FindFirst(st, sz, p) ==
    LET hits == {k \in 1..sz : Matches(objs[st[k]], p)}
    IN IF hits = {} THEN 0 ELSE CHOOSE k \in hits : \A h \in hits : k <= h

\* signal_b::disconnect(F&&) and signal_b::disconnect(C&&, F&&)
DoDisconnect(p) ==
    LET k == FindFirst(store, size, p)
    IN /\ IF k = 0
          THEN /\ store' = store
               /\ size' = size
               /\ freed' = freed
          ELSE /\ freed' = freed \cup {store[k]}
               /\ store' = Erase(store, size, k)
               /\ size' = size - 1
       /\ objs' = objs

\* a delete loop that stops one element short
AllButLast(st, sz) == {st[k] : k \in 1..(sz - 1)}

\* for (auto sp : slots_): the pointers disconnect(void) visits
AllOf(st, sz) == {st[k] : k \in 1..sz}

\* signal_b::disconnect(void)
DoDisconnectAll ==
    /\ freed' = freed \cup AllOf(store, size)
    /\ store' = store
    /\ size' = 0
    /\ objs' = objs

\* ------------------------------------------------------------ operations
\* the caller may start an operation when no pass is running
AtTop == pc \in {"idle", "returned", "threw"}

ResetPass ==
    /\ pc' = "idle"
    /\ it' = 0
    /\ endIt' = 0
    /\ view' = <<>>
    /\ detached' = FALSE
    /\ args' = <<>>
    /\ log' = <<>>
    /\ snap' = <<>>
    /\ mutated' = {}
    /\ result' = NoResult

Connect(p) ==
    /\ AtTop
    /\ DoConnect(p)
    /\ last' = Op("connect", p)
    /\ ResetPass
    /\ UNCHANGED <<kind, printfVars>>

Disconnect(p) ==
    /\ AtTop
    /\ DoDisconnect(p)
    /\ last' = Op("disconnect", p)
    /\ ResetPass
    /\ UNCHANGED <<kind, printfVars>>

DisconnectAll ==
    /\ AtTop
    /\ DoDisconnectAll
    /\ last' = Op("clear", NoPayload)
    /\ ResetPass
    /\ UNCHANGED <<kind, printfVars>>

\* signal_b::connect when an allocation throws std::bad_alloc: `new slot_fn`
\* throws before anything is touched (w = "new"), or push_back throws while
\* growing the buffer (w = "grow"), after the slot was allocated; nothing
\* catches, so the slot of the second case is never deleted
ConnectFail(p, w) ==
    /\ AtTop
    /\ IF w = "new"
       THEN UNCHANGED regVars
       ELSE /\ size = Len(store)
            /\ Len(objs) < MaxObjs
            /\ objs' = Append(objs, p)
            /\ store' = store
            /\ size' = SizeAfterFailedPush(size)
            /\ freed' = freed
    /\ last' = Op(IF w = "new" THEN "new_failed" ELSE "grow_failed", p)
    /\ ResetPass
    /\ UNCHANGED <<kind, printfVars>>

\* a destructor that deletes the slots the registry still holds
DeletesLive(st, sz) == {st[k] : k \in 1..sz}

\* the slots the destruction of the signal deletes: signal_b declares no
\* destructor and slots_ holds raw pointers, so the implicit one deletes none
DeletedByDestructor(st, sz) == {}

\* the signal object is destroyed: slots_ releases its buffer
Destroy ==
    /\ AtTop
    /\ freed' = freed \cup DeletedByDestructor(store, size)
    /\ store' = <<>>
    /\ size' = 0
    /\ objs' = objs
    /\ last' = Op("destroy", NoPayload)
    /\ pc' = "destroyed"
    /\ it' = 0
    /\ endIt' = 0
    /\ view' = <<>>
    /\ detached' = FALSE
    /\ args' = <<>>
    /\ log' = <<>>
    /\ snap' = <<>>
    /\ mutated' = {}
    /\ result' = NoResult
    /\ UNCHANGED <<kind, printfVars>>

\* entry of operator(): the range-for takes begin() and end() once; the
\* result-bearing operator returns R{} on an empty registry
FireBegin(a) ==
    /\ AtTop
    /\ args' = a
    /\ log' = <<>>
    /\ snap' = Live(store, size)
    /\ mutated' = {}
    /\ it' = 0
    /\ view' = <<>>
    /\ detached' = FALSE
    /\ IF kind = "void"
       THEN /\ endIt' = size
            /\ pc' = "loop"
            /\ result' = NoResult
       ELSE /\ endIt' = 0
            /\ pc' = IF IsEmpty(size) THEN "returned" ELSE "loop"
            /\ result' = IF IsEmpty(size) THEN Default ELSE NoResult
    /\ UNCHANGED <<kind, regVars, last, printfVars>>

\* the buffer the range-for walks
Buf == IF detached THEN view ELSE store

\* the result-bearing loop is at its final `slots_.back()` call
AtBack == kind = "result" /\ ~LtSizeMinus1(it, size)

\* the range-for has reached its cached end
AtEnd == kind = "void" /\ it = endIt

\* the pointer the pass reads next
Cell ==
    IF kind = "void"
    THEN Buf[it + 1]
    ELSE IF AtBack THEN store[size]
    ELSE IF it < Len(store) THEN store[it + 1]
    ELSE Beyond

\* what an invoked target may do to the registry it is connected to
Reactions ==
    {[do |-> "none", p |-> NoPayload], [do |-> "throw", p |-> NoPayload],
     [do |-> "clear", p |-> NoPayload]} \cup
    {[do |-> d, p |-> q] : d \in {"connect", "disconnect"}, q \in Payloads}

\* a dispatch that drops every slot once a target has run
ReactOneShot(r) ==
    CASE r.do = "connect" -> DoConnect(r.p)
      [] r.do = "disconnect" -> DoDisconnect(r.p)
      [] OTHER -> DoDisconnectAll

React(r) ==
    CASE r.do = "connect" -> DoConnect(r.p)
      [] r.do = "disconnect" -> DoDisconnect(r.p)
      [] r.do = "clear" -> DoDisconnectAll
      [] OTHER -> UNCHANGED regVars

\* a dispatch loop that swallows the failure of a target
Swallows(r) == FALSE

\* operator() has no handler around sp->call: a failure of the target
\* leaves the loop and the operator
Unwinds(r) == r.do = "throw"

\* one iteration: sp->call(args...), during which the target acts
FireCall(r) ==
    /\ pc = "loop"
    /\ ~AtEnd
    /\ Cell \in 1..Len(objs)
    /\ log' = Append(log, [id |-> Cell,
                           got |-> CallArgs(objs[Cell], args),
                           dead |-> Cell \in freed,
                           threw |-> r.do = "throw"])
    /\ React(r)
    /\ mutated' = IF r.do \in {"none", "throw"} THEN mutated
                  ELSE mutated \cup {r.do}
    /\ IF kind = "void" /\ ~detached /\ Len(store') # Len(store)
       THEN detached' = TRUE /\ view' = store
       ELSE UNCHANGED <<detached, view>>
    /\ IF Unwinds(r)
       THEN pc' = "threw" /\ UNCHANGED <<it, result>>
       ELSE IF AtBack
       THEN pc' = "returned" /\ result' = Ret(objs[Cell]) /\ it' = it
       ELSE pc' = "loop" /\ it' = it + 1 /\ result' = result
    /\ last' = IF r.do \in {"none", "throw"} THEN last ELSE NoOp
    /\ UNCHANGED <<kind, endIt, args, snap, printfVars>>

\* if (sp == nullptr) continue: an uninitialised cell that reads as null
FireSkip ==
    /\ pc = "loop"
    /\ ~AtEnd
    /\ Cell = Garbage
    /\ it' = it + 1
    /\ UNCHANGED <<kind, regVars, last, pc, endIt, view, detached, args, log,
                   snap, mutated, result, printfVars>>

\* the range-for leaves the loop at the cached end
FireReturn ==
    /\ pc = "loop"
    /\ AtEnd
    /\ pc' = "returned"
    /\ UNCHANGED <<kind, regVars, last, it, endIt, view, detached, args, log,
                   snap, mutated, result, printfVars>>

\* the range-for dereferences an iterator a registry operation invalidated
StaleIterator == kind = "void" /\ mutated # {} /\ ~AtEnd

\* the pass indexes slots_ at or past size()
OutOfRange == kind = "result" /\ ~AtBack /\ it >= size

\* undefined behaviour ends the process
FireCrash ==
    /\ pc = "loop"
    /\ \/ StaleIterator
       \/ OutOfRange
       \/ ~AtEnd /\ Cell \in freed
    /\ pc' = "crashed"
    /\ UNCHANGED <<kind, regVars, last, it, endIt, view, detached, args, log,
                   snap, mutated, result, printfVars>>

Next ==
    \/ \E p \in Payloads : Connect(p)
    \/ \E p \in Payloads : Disconnect(p)
    \/ DisconnectAll
    \/ FireBegin(CountUp)
    \/ \E r \in Reactions : FireCall(r)
    \/ FireSkip
    \/ FireReturn
    \/ FireCrash

Spec == Init /\ [][Next]_vars

\* a target that leaves the registry alone and returns
Plain == [do |-> "none", p |-> NoPayload]

\* connect and dispatch over targets of every arity, for the adaptation of
\* the argument list
NextArity ==
    \/ \E p \in ArityPayloads : Connect(p)
    \/ \E a \in {CountUp, CountDown} : FireBegin(a)
    \/ FireCall(Plain)
    \/ FireReturn

SpecArity == Init /\ [][NextArity]_vars

\* the lifetime of the slots: registry operations, failing allocations and
\* the destruction of the signal
NextLife ==
    \/ \E p \in Payloads : Connect(p)
    \/ \E p \in Payloads : Disconnect(p)
    \/ DisconnectAll
    \/ \E p \in Payloads, w \in {"new", "grow"} : ConnectFail(p, w)
    \/ Destroy

SpecLife == Init /\ [][NextLife]_vars

\* connect and disconnect over free and bound payloads, for removal by
\* identity
NextIdentity ==
    \/ \E p \in IdentityPayloads : Connect(p)
    \/ \E p \in IdentityPayloads : Disconnect(p)

SpecIdentity == Init /\ [][NextIdentity]_vars

\* --------------------------------------------------------- printf calls
\* printf keeps nothing between calls, so one call from the initial state
\* stands for every call
PrintfIdle == ppc = "idle"

\* capo::printf(call_out, fmt, args...) is entered with a format
PrintfCall(toks, as) ==
    /\ PrintfIdle
    /\ ptoks' = toks
    /\ pfmt' = Flatten(toks)
    /\ pargs' = as
    /\ pres' = "none"
    /\ psink' = 0
    /\ ppc' = "checking"
    /\ UNCHANGED signalVars

\* if (!fmt) return 0;
PrintfNull(as) ==
    /\ PrintfIdle
    /\ ptoks' = <<>>
    /\ pfmt' = NullFmt
    /\ pargs' = as
    /\ pres' = "none"
    /\ psink' = 0
    /\ ppc' = "done"
    /\ UNCHANGED signalVars

\* an output stage that is reached whatever check did
ReachedAnyway(res) == TRUE

\* the statement after detail_printf::check(...) is reached only when check
\* returned: printf has no handler, a throw leaves it
Reached(res) == res = "ok"

\* detail_printf::check(fmt, args...)
PrintfCheck ==
    /\ ppc = "checking"
    /\ pres' = Check(pfmt, 1, TypesOf(pargs))
    /\ ppc' = IF Reached(pres') THEN "output" ELSE "threw"
    /\ UNCHANGED <<ptoks, pfmt, pargs, psink, signalVars>>

\* the characters vsnprintf writes for a format without conversions: one
\* for each literal and each "%%"
RECURSIVE PlainLength(_, _)
PlainLength(s, i) ==
    IF At(s, i) = Nul THEN 0
    ELSE IF At(s, i) = "%" THEN 1 + PlainLength(s, i + 2)
    ELSE 1 + PlainLength(s, i + 1)

\* how detail_printf::output may end.  Without arguments n is the length of
\* the text and call_out runs when n > 0.  With arguments the second
\* vsnprintf reads the va_list the first one consumed, so the call may write
\* the text, fail with n <= 0, or fault.
OutputOutcomes ==
    IF pargs = <<>>
    THEN (IF PlainLength(pfmt, 1) > 0 THEN {"sink"} ELSE {"quiet"})
    ELSE {"sink", "quiet", "crash"}

\* detail_printf::output(call_out, fmt, args...)
PrintfOutput(o) ==
    /\ ppc = "output"
    /\ o \in OutputOutcomes
    /\ psink' = IF o = "sink" THEN psink + 1 ELSE psink
    /\ ppc' = IF o = "crash" THEN "crashed" ELSE "done"
    /\ UNCHANGED <<ptoks, pfmt, pargs, pres, signalVars>>

\* the formats and the argument lists a call is tried with
Formats == SeqsUpTo(Pieces, MaxToks)
ArgLists == SeqsUpTo(ArgValues, MaxArgs)

NextPrintf ==
    \/ PrintfIdle /\ \E toks \in Formats, as \in ArgLists : PrintfCall(toks, as)
    \/ PrintfIdle /\ \E as \in ArgLists : PrintfNull(as)
    \/ PrintfCheck
    \/ \E o \in {"sink", "quiet", "crash"} : PrintfOutput(o)

SpecPrintf == Init /\ [][NextPrintf]_vars

TypeOK ==
    /\ kind \in {"void", "result"}
    /\ size \in 0..Len(store)
    /\ Len(objs) <= MaxObjs
    /\ freed \subseteq 1..Len(objs)
    /\ pc \in {"idle", "loop", "returned", "threw", "crashed", "destroyed"}

\* ------------------------------------------------------------- properties
\* the ids the pass invoked, in the order of the calls
LogIds == [j \in 1..Len(log) |-> log[j].id]

\* the elements of a sequence
Range(q) == {q[j] : j \in 1..Len(q)}

\* the ids of a set in increasing order, which is the order of registration
RECURSIVE SortedSeq(_)
SortedSeq(S) ==
    IF S = {} THEN <<>>
    ELSE LET m == CHOOSE x \in S : \A y \in S : x <= y
         IN <<m>> \o SortedSeq(S \ {m})

\* the slots connect() created and no disconnect destroyed
Registered == (1..Len(objs)) \ freed

\* q without its k-th element
Without(q, k) == SubSeq(q, 1, k - 1) \o SubSeq(q, k + 1, Len(q))

\* the positions of q whose entry has the identity of payload p
EqualAt(q, p) == {k \in 1..Len(q) : objs[q[k]] = p}

\* a pass was started and has not been followed by another operation
InPass == pc # "idle"

\* the pass is over, by return or by the death of the process
PassOver == pc \in {"returned", "crashed"}

\* C1: for a no-result signature, a fire() whose targets neither touch the
\* registry nor fail invokes every registered slot exactly once, in
\* registration order, whatever connects and disconnects built the registry,
\* and invokes nothing else.
C1_FireInvokesRegisteredInOrder ==
    (kind = "void" /\ pc = "returned" /\ mutated = {}) =>
        /\ LogIds = SortedSeq(Registered)
        /\ LogIds = Live(store, size)
        /\ \A j \in 1..Len(log) : ~log[j].dead

C1_Witness ==
    /\ kind = "void" /\ pc = "returned" /\ mutated = {}
    /\ Len(log) = 2
    /\ freed # {}
    /\ \E j \in freed : j < log[2].id

\* C2 (as claimed): when a target calls disconnect_all() during a pass, the
\* pass still invokes every slot that was registered when it began, once
\* and in order, and the registry is empty afterwards.
C2_DisconnectAllKeepsPass ==
    (PassOver /\ mutated = {"clear"}) =>
        /\ pc = "returned"
        /\ LogIds = snap
        /\ \A j \in 1..Len(log) : ~log[j].dead
        /\ size = 0

\* C3 (as claimed): a connect or a single disconnect made by a target during
\* a pass does not change that pass: the slots invoked are those registered
\* when the pass began, in that order.
C3_MutationLeavesPassAlone ==
    (pc = "returned" /\ mutated # {} /\ mutated \subseteq {"connect", "disconnect"}) =>
        LogIds = snap

\* C4: disconnect(payload) with a matching entry removes and destroys the
\* first entry equal to the payload and nothing else: the size drops by one,
\* later equal entries stay, the others keep their order.
C4_DisconnectRemovesFirstMatch ==
    (last.op = "disconnect" /\ pc = "idle" /\ EqualAt(last.pre, last.p) # {}) =>
        LET k == CHOOSE h \in EqualAt(last.pre, last.p) :
                    \A g \in EqualAt(last.pre, last.p) : h <= g
        IN /\ Live(store, size) = Without(last.pre, k)
           /\ size = Len(last.pre) - 1
           /\ freed = last.preFreed \cup {last.pre[k]}

C4_Witness ==
    /\ last.op = "disconnect" /\ pc = "idle"
    /\ Len(last.pre) = 3
    /\ EqualAt(last.pre, last.p) = {1, 3}
    /\ size = 2

\* C5: for a result-bearing signature and a non-empty registry, a fire()
\* whose targets neither touch the registry nor fail invokes every registered
\* slot once in registration order and returns what the last one returned.
C5_ResultIsLastTargets ==
    (kind = "result" /\ pc = "returned" /\ mutated = {} /\ snap # <<>>) =>
        /\ LogIds = SortedSeq(Registered)
        /\ LogIds = snap
        /\ \A j \in 1..Len(log) : ~log[j].dead
        /\ result = Ret(objs[snap[Len(snap)]])

C5_Witness ==
    /\ kind = "result" /\ pc = "returned" /\ mutated = {}
    /\ Len(log) = 3
    /\ Ret(objs[log[1].id]) # Ret(objs[log[3].id])
    /\ Ret(objs[log[2].id]) # Ret(objs[log[3].id])
    /\ result = Ret(objs[log[3].id])

\* C6: for a result-bearing signature, fire() on an empty registry returns
\* the default value at once and invokes nothing, also when the registry was
\* emptied by disconnects.
C6_EmptyReturnsDefault ==
    (kind = "result" /\ InPass /\ snap = <<>>) =>
        /\ pc = "returned"
        /\ result = Default
        /\ log = <<>>

C6_Witness ==
    /\ kind = "result" /\ pc = "returned" /\ snap = <<>>
    /\ result = Default
    /\ Len(objs) >= 2
    /\ freed = 1..Len(objs)

\* C7: a failure of a target ends the pass at once: the failing call is the
\* last call of the pass, the slots before it were invoked once each in
\* order, and when no target touched the registry it is what it was.
C7_FailFast ==
    /\ \A j \in 1..Len(log) : log[j].threw => (j = Len(log) /\ pc = "threw")
    /\ (pc = "threw" /\ mutated = {}) =>
           /\ Len(log) >= 1
           /\ log[Len(log)].threw
           /\ LogIds = SubSeq(snap, 1, Len(log))
           /\ Live(store, size) = snap

C7_Witness ==
    /\ pc = "threw" /\ mutated = {}
    /\ Len(snap) = 3
    /\ Len(log) = 2
    /\ log[2].threw

\* C8: a target with M declared parameters receives the first min(M, N) of
\* the N arguments in their order (all N when M is unknown, none when M is
\* 0), in every pass.
C8_PrefixOfArguments ==
    \A j \in 1..Len(log) :
        LET m == DeclParams(objs[log[j].id].f)
            k == IF m = Unknown THEN NParams
                 ELSE IF m < NParams THEN m ELSE NParams
        IN /\ Len(log[j].got) = k
           /\ \A i \in 1..k : log[j].got[i] = args[i]

C8_Witness ==
    /\ args = CountDown
    /\ Len(log) = 3
    /\ {DeclParams(objs[log[j].id].f) : j \in 1..3} \in
           {{0, 1, Unknown}, {1, Unknown, NParams + 1}}

\* C9: disconnect(payload) when no entry equals the payload changes nothing:
\* same entries, same order, same size, no slot destroyed, no failure.
C9_DisconnectAbsentIsNoOp ==
    (last.op = "disconnect" /\ pc = "idle" /\ EqualAt(last.pre, last.p) = {}) =>
        /\ Live(store, size) = last.pre
        /\ size = Len(last.pre)
        /\ freed = last.preFreed

C9_Witness ==
    /\ last.op = "disconnect" /\ pc = "idle"
    /\ EqualAt(last.pre, last.p) = {}
    /\ Len(last.pre) = 2
    /\ \E k \in 1..2 : SameSlotType(objs[last.pre[k]], last.p)
    /\ size = 2

\* C10: disconnect_all() destroys every entry and empties the registry, a
\* fire() that follows invokes nothing, and on an empty registry it destroys
\* nothing and changes nothing.
C10_DisconnectAllEmpties ==
    /\ (last.op = "clear" /\ pc = "idle") =>
           /\ size = 0
           /\ freed = last.preFreed \cup Range(last.pre)
           /\ Range(last.pre) \cap last.preFreed = {}
    /\ (last.op = "clear" /\ InPass) =>
           /\ pc \in {"loop", "returned"}
           /\ log = <<>>

C10_Witness ==
    /\ last.op = "clear" /\ pc = "returned"
    /\ Len(last.pre) = 2
    /\ log = <<>>

\* C11 (as claimed): every slot connect() created is destroyed exactly once;
\* once the signal is destroyed no created slot is left undestroyed.
C11_DestroyedWithRegistry ==
    pc = "destroyed" => freed = 1..Len(objs)

\* C12: a connect() that fails on an allocation, of the slot or of the
\* registry's storage, leaves the registry as it was: same entries, same
\* order, same size, nothing destroyed.
C12_FailedConnectLeavesRegistry ==
    (last.op \in {"new_failed", "grow_failed"} /\ pc = "idle") =>
        /\ size = Len(last.pre)
        /\ Live(store, size) = last.pre
        /\ freed = last.preFreed

C12_Witness ==
    /\ last.op = "grow_failed" /\ pc = "idle"
    /\ Len(last.pre) = 2
    /\ size = 2
    /\ Len(objs) = 3

\* C14: disconnect(callable) destroys only a free-callable entry whose
\* callable equals the argument; disconnect(receiver, method) destroys only a
\* bound entry whose receiver and method both equal the arguments; entries
\* that differ in receiver or in method stay registered.
C14_RemovalRespectsShape ==
    (last.op = "disconnect" /\ pc = "idle") =>
        /\ \A id \in freed \ last.preFreed :
              /\ (objs[id].c = 0) = (last.p.c = 0)
              /\ objs[id].f = last.p.f
              /\ objs[id].c = last.p.c
        /\ \A k \in 1..Len(last.pre) :
              objs[last.pre[k]] # last.p => last.pre[k] \in Range(Live(store, size))

C14_Witness ==
    /\ last.op = "disconnect" /\ pc = "idle"
    /\ last.p = [c |-> 1, f |-> 5]
    /\ Len(last.pre) = 3
    /\ objs[last.pre[1]] = [c |-> 2, f |-> 5]
    /\ objs[last.pre[2]] = [c |-> 1, f |-> 6]
    /\ objs[last.pre[3]] = [c |-> 1, f |-> 5]
    /\ Live(store, size) = <<last.pre[1], last.pre[2]>>

\* C15: connect() appends exactly one entry at the end: the size grows by
\* one, the earlier entries keep their places, a payload already registered
\* gets a second entry, and a fire() that follows invokes each entry once.
C15_ConnectAppends ==
    /\ (last.op = "connect" /\ pc = "idle") =>
           /\ size = Len(last.pre) + 1
           /\ Live(store, size) = Append(last.pre, Len(objs))
           /\ objs[Len(objs)] = last.p
           /\ Len(objs) \notin Range(last.pre)
           /\ freed = last.preFreed
    /\ (last.op = "connect" /\ pc = "returned" /\ mutated = {}) =>
           LogIds = Append(last.pre, Len(objs))

C15_Witness ==
    /\ last.op = "connect" /\ pc = "returned" /\ mutated = {}
    /\ Len(last.pre) = 1
    /\ objs[last.pre[1]] = last.p
    /\ freed # {}
    /\ Len(log) = 2

\* C16 (as claimed): no pass ever invokes a slot that was already destroyed.
C16_NeverInvokesDestroyed ==
    \A j \in 1..Len(log) : ~log[j].dead

\* C17 (as claimed): while the result-bearing loop runs, the registry is not
\* empty when size() - 1 is evaluated and the index read is below size().
C17_IndexWithinRegistry ==
    (kind = "result" /\ pc = "loop") =>
        /\ size > 0
        /\ (~AtBack => it < size)

\* C18: fire() does not modify the registry: as long as no invoked target
\* has called connect or disconnect, the entries, their order and the size
\* are those of the start of the pass, so the next fire() sees the same.
C18_FireLeavesRegistry ==
    (InPass /\ pc # "destroyed" /\ mutated = {}) =>
        /\ Live(store, size) = snap
        /\ size = Len(snap)
        /\ Registered = Range(snap)

C18_Witness ==
    /\ kind = "void" /\ pc = "returned" /\ mutated = {}
    /\ Len(snap) = 3
    /\ Len(log) = 3
    /\ Live(store, size) = snap

\* the conversion specifications among the pieces of a format, in order
RECURSIVE SpecsOf(_)
SpecsOf(ts) ==
    IF ts = <<>> THEN <<>>
    ELSE IF Len(Head(ts)) >= 2 /\ Head(ts) # <<"%", "%">>
    THEN <<Head(ts)>> \o SpecsOf(Tail(ts))
    ELSE SpecsOf(Tail(ts))

\* the argument type a conversion specification stands for
TypeFor(piece) ==
    CASE piece = <<"%", "d">> -> "int"
      [] piece = <<"%", "l", "d">> -> "long"
      [] piece = <<"%", "s">> -> "const char*"

\* the call has a format whose specifications and arguments do not agree
Disagree ==
    \/ Len(SpecsOf(ptoks)) # Len(pargs)
    \/ \E j \in 1..Len(pargs) :
          /\ j <= Len(SpecsOf(ptoks))
          /\ ~Convertible(TypeOf(pargs[j]), TypeFor(SpecsOf(ptoks)[j]))

\* C13: printf throws std::invalid_argument whenever the number of
\* conversion specifications of the format ("%%" being a literal) differs
\* from the number of arguments, either way, or an argument is not
\* convertible to the type of its specification.
C13_MismatchThrows ==
    (pfmt # NullFmt /\ pres # "none" /\ Disagree) =>
        /\ pres = "throw"
        /\ ppc = "threw"

C13_Witness ==
    /\ ppc = "threw"
    /\ ptoks = <<<<"%", "%">>, <<"%", "l", "d">>, <<"%", "s">>>>
    /\ pargs = <<"int">>

\* C19: when the validation of a printf call throws, call_out has not been
\* called for that call.
C19_NoOutputBeforeValidation ==
    /\ pres = "throw" => psink = 0
    /\ pres = "none" => psink = 0

C19_Witness ==
    /\ pres = "throw"
    /\ ppc = "threw"
    /\ psink = 0
    /\ Len(ptoks) = 3
    /\ ptoks[1] = <<"d">>
    /\ pargs = <<"str", "int">>

====
